---- MODULE Spec2Model ----
(***************************************************************************)
(* Model of the engagement-and-progression engine of the imomaru bot:      *)
(* lambda_handler / _process_bot_logic, StateStore, LevelManager,          *)
(* XPCalculator, TimelineMonitor filters and the DailyReporter gates.      *)
(*                                                                         *)
(* XP values are floats with one decimal in the source (5.0, 2.0, 0.5,     *)
(* 0.1); the model counts XP in tenths, so 5.0 XP is 50.                   *)
(* None is written 0 for tweet ids, dates and months (real ones are >= 1). *)
(***************************************************************************)
EXTENDS Integers, Sequences, FiniteSets, TLC

\* ---------------------------------------------------------------- bounds
MaxPosts == 2
MaxMetric == 1
MaxDay == 1
MaxCalls == 3
MaxLevel == 3
MaxScore == 320
MaxPieces == 5
MaxBudget == 16
MaxCount == 7
MaxTotal == 2
MaxGrants == 2

\* ------------------------------------------------------ program constants
RATE_OSHI_POST == 50
RATE_GROUP_POST == 20
RATE_REPOST == 5
RATE_LIKE == 1
DAILY_REPORT_HOUR == 21
MORNING_HOUR == 9
LOW_ACTIVITY_THRESHOLD == 3
SUNDAY == 6
MAX_TEXT_LENGTH == 140
SUMMARY_MARGIN == 10
ELLIPSIS_LENGTH == 3

\* the invocations, named in the order in which they start
Invocations == {"a", "b"}
StartsBefore(i) == IF i = "b" THEN {"a"} ELSE {}
TweetIds == 1..MaxPosts
ActionTypes == {"quote_oshi", "quote_group", "retweet_oshi", "retweet_group"}
Modes == {"daily_report", "core_time"}
Hours == {9, 21}
Times == [day : 1..MaxDay, hour : Hours]

Max(a, b) == IF a >= b THEN a ELSE b

\* ------------------------------------------------------------- the world
\* The timelines of the two watched accounts.  Tweet ids are snowflakes, so
\* they grow with time: the tweets that exist are 1..numTweets.  What each
\* id is (author, reply / retweet flags) is fixed input data.
\* 1: oshi post, 2: group retweet, 3: group post, 4: oshi retweet,
\* 5: oshi reply, then the same again ("mixed"); or every tweet is an
\* original post of the oshi ("oshi_posts"); or 1: oshi post, 2: oshi reply,
\* then the same again ("replies").
VARIABLE catalogue

TweetAuthor(id) ==
    IF catalogue \in {"oshi_posts", "replies"} THEN "oshi"
    ELSE IF (id - 1) % 5 \in {1, 2} THEN "group" ELSE "oshi"

TweetIsRetweet(id) == catalogue = "mixed" /\ (id - 1) % 5 \in {1, 3}

TweetIsReply(id) ==
    \/ catalogue = "mixed" /\ (id - 1) % 5 = 4
    \/ catalogue = "replies" /\ (id - 1) % 2 = 1

\* progression table {level: required_xp}, in tenths of an XP
XPTable == (1 :> 0) @@ (2 :> 20) @@ (3 :> 40)

\* ------------------------------------------------------------- BotState
\* the fields and defaults of the BotState dataclass (last_updated, a
\* timestamp nothing reads, is left out)
BotStateDeclared ==
    [cumulative_xp |-> 0, current_level |-> 1, latest_tweet_id |-> 0,
     oshi_post_count |-> 0, group_post_count |-> 0, repost_count |-> 0,
     like_count |-> 0,
     daily_oshi_count |-> 0, daily_group_count |-> 0,
     daily_repost_count |-> 0, daily_like_count |-> 0, daily_xp |-> 0,
     last_daily_report_date |-> 0, last_profile_update_month |-> 0,
     total_received_likes |-> 0, total_received_retweets |-> 0,
     daily_image_posted |-> FALSE]

\* _process_bot_logic reads state.prev_daily_oshi_count, which the dataclass
\* in bot_state.py does not declare; the field is taken from the data model
\* of the specification (prev_period_primary_count, an int, default 0).
BotStateUndeclared == [prev_daily_oshi_count |-> 0]

BotState == BotStateDeclared @@ BotStateUndeclared

\* StateStore.save_state: the item written to the state table; fields the
\* method does not write are not in the item.
SaveItem(state) ==
    [cumulative_xp |-> state.cumulative_xp,
     current_level |-> state.current_level,
     oshi_post_count |-> state.oshi_post_count,
     group_post_count |-> state.group_post_count,
     repost_count |-> state.repost_count,
     like_count |-> state.like_count,
     daily_oshi_count |-> state.daily_oshi_count,
     daily_group_count |-> state.daily_group_count,
     daily_repost_count |-> state.daily_repost_count,
     daily_like_count |-> state.daily_like_count,
     daily_xp |-> state.daily_xp,
     total_received_likes |-> state.total_received_likes,
     total_received_retweets |-> state.total_received_retweets,
     latest_tweet_id |-> state.latest_tweet_id,
     last_daily_report_date |-> state.last_daily_report_date,
     last_profile_update_month |-> state.last_profile_update_month]

PutItemIfNewer(current, item) ==
    IF item.cumulative_xp >= current.cumulative_xp THEN item ELSE current

\* the put_item of save_state: a full, unconditional overwrite
PutItem(current, item) == item

\* StateStore.load_state: item -> BotState; fields absent from the item
\* take the dataclass defaults.
LoadState(item) ==
    [f \in DOMAIN BotState |->
        IF f \in DOMAIN item THEN item[f] ELSE BotState[f]]

\* ------------------------------------------------------------ XPCalculator
ActivityTypes == {"oshi_post", "group_post", "repost", "like"}

get_rate(activity_type) ==
    CASE activity_type = "oshi_post" -> RATE_OSHI_POST
      [] activity_type = "group_post" -> RATE_GROUP_POST
      [] activity_type = "repost" -> RATE_REPOST
      [] activity_type = "like" -> RATE_LIKE

\* calculate_xp raises ValueError when count < 0
calculate_xp_raises(count) == count < 0

calculate_xp(activity_type, count) == get_rate(activity_type) * count

\* ------------------------------------------------------ XP as Python floats
\* XPCalculator computes with Python floats (IEEE 754 binary64).  A float
\* value v with 2^-4 <= v < 2^7 is written as the natural number v * 2^56,
\* held in NumLimbs limbs of LimbBits bits, lowest limb first; every such
\* float is a whole number of these units.  An operation is the exact
\* result rounded to MantissaBits significant bits, ties to even.
LimbBits == 15

NumLimbs == 5

MantissaBits == 53

RECURSIVE Pow2(_)
Pow2(n) == IF n = 0 THEN 1 ELSE 2 * Pow2(n - 1)

LimbBase == Pow2(LimbBits)

BigZero == [k \in 1..NumLimbs |-> 0]

\* carry propagation over limbs that may exceed the base
Normalize(raw) ==
    LET RECURSIVE Carry(_, _, _)
        Carry(k, carry, acc) ==
            IF k > NumLimbs THEN acc
            ELSE Carry(k + 1, (raw[k] + carry) \div LimbBase,
                       Append(acc, (raw[k] + carry) % LimbBase))
    IN Carry(1, 0, << >>)

BigAdd(x, y) == Normalize([k \in 1..NumLimbs |-> x[k] + y[k]])

BigMul(x, c) == Normalize([k \in 1..NumLimbs |-> x[k] * c])

RECURSIVE BigGeqFrom(_, _, _)
BigGeqFrom(x, y, k) ==
    IF k = 0 THEN TRUE
    ELSE IF x[k] > y[k] THEN TRUE
    ELSE IF x[k] < y[k] THEN FALSE
    ELSE BigGeqFrom(x, y, k - 1)

BigGeq(x, y) == BigGeqFrom(x, y, NumLimbs)

\* x - y for x >= y
BigSub(x, y) ==
    LET RECURSIVE Borrow(_, _, _)
        Borrow(k, borrow, acc) ==
            IF k > NumLimbs THEN acc
            ELSE IF x[k] - y[k] - borrow < 0
                 THEN Borrow(k + 1, 1, Append(acc, x[k] - y[k] - borrow + LimbBase))
                 ELSE Borrow(k + 1, 0, Append(acc, x[k] - y[k] - borrow))
    IN Borrow(1, 0, << >>)

BigAbsDiff(x, y) == IF BigGeq(x, y) THEN BigSub(x, y) ELSE BigSub(y, x)

RECURSIVE IntBitLength(_)
IntBitLength(v) == IF v = 0 THEN 0 ELSE 1 + IntBitLength(v \div 2)

\* the number of significant bits of x
BitLength(x) ==
    IF x = BigZero THEN 0
    ELSE LET top == CHOOSE k \in 1..NumLimbs :
                        x[k] # 0 /\ \A j \in (k + 1)..NumLimbs : x[j] = 0
         IN LimbBits * (top - 1) + IntBitLength(x[top])

\* round to nearest, ties to even, to MantissaBits significant bits (the
\* bits dropped lie in the lowest limb for the values that occur)
RoundToFloat(x) ==
    LET drop == BitLength(x) - MantissaBits
    IN IF drop <= 0 THEN x
       ELSE LET unit == Pow2(drop)
                rest == x[1] % unit
                odd == (x[1] \div unit) % 2 = 1
                up == rest > unit \div 2 \/ (rest = unit \div 2 /\ odd)
            IN Normalize([x EXCEPT ![1] = @ - rest + (IF up THEN unit ELSE 0)])

FloatAdd(x, y) == RoundToFloat(BigAdd(x, y))

\* float * int, the int being exact as a float
FloatMulInt(x, c) == RoundToFloat(BigMul(x, c))

\* the floats of the XPRates literals 5.0, 2.0, 0.5 and 0.1; the float 0.1
\* is 7205759403792794 * 2^-56
RateFloat(activity_type) ==
    CASE activity_type = "oshi_post" -> <<0, 0, 0, 10240, 0>>
      [] activity_type = "group_post" -> <<0, 0, 0, 4096, 0>>
      [] activity_type = "repost" -> <<0, 0, 0, 1024, 0>>
      [] activity_type = "like" -> <<6554, 13107, 26214, 204, 0>>

calculate_xp_float_at_least_one(activity_type, count) ==
    FloatMulInt(RateFloat(activity_type), IF count = 0 THEN 1 ELSE count)

\* calculate_xp on floats: self.get_rate(activity_type) * count
calculate_xp_float(activity_type, count) ==
    FloatMulInt(RateFloat(activity_type), count)

\* ------------------------------------------------------------ LevelManager
\* LevelManager.__init__ raises ValueError on an empty table
LevelManagerRaises(xp_table) == DOMAIN xp_table = {}

max_level(xp_table) ==
    CHOOSE l \in DOMAIN xp_table : \A k \in DOMAIN xp_table : k <= l

\* the keys of the table in ascending order
SortedKeys(xp_table) ==
    LET RECURSIVE Build(_, _)
        Build(rest, acc) ==
            IF rest = {} THEN acc
            ELSE LET m == CHOOSE x \in rest : \A y \in rest : x <= y
                 IN Build(rest \ {m}, Append(acc, m))
    IN Build(DOMAIN xp_table, << >>)

calculate_level_strict(xp_table, cumulative_xp) ==
    LET keys == SortedKeys(xp_table)
        RECURSIVE Walk(_, _)
        Walk(k, current_level) ==
            IF k > Len(keys) THEN current_level
            ELSE IF cumulative_xp > xp_table[keys[k]]
                 THEN Walk(k + 1, keys[k])
                 ELSE current_level
    IN Walk(1, 1)

\* calculate_level: walk the sorted levels, stop at the first threshold
\* above the score
calculate_level(xp_table, cumulative_xp) ==
    LET keys == SortedKeys(xp_table)
        RECURSIVE Walk(_, _)
        Walk(k, current_level) ==
            IF k > Len(keys) THEN current_level
            ELSE IF cumulative_xp >= xp_table[keys[k]]
                 THEN Walk(k + 1, keys[k])
                 ELSE current_level
    IN Walk(1, 1)

check_level_up_by_one(xp_table, current_level, cumulative_xp) ==
    IF current_level >= max_level(xp_table)
    THEN <<FALSE, current_level>>
    ELSE IF calculate_level(xp_table, cumulative_xp) > current_level
         THEN <<TRUE, current_level + 1>>
         ELSE <<FALSE, current_level>>

\* check_level_up: <<leveled_up, new_level>>
check_level_up(xp_table, current_level, cumulative_xp) ==
    IF current_level >= max_level(xp_table)
    THEN <<FALSE, current_level>>
    ELSE LET new_level == calculate_level(xp_table, cumulative_xp)
         IN IF new_level > current_level
            THEN <<TRUE, new_level>>
            ELSE <<FALSE, current_level>>

\* get_xp_to_next_level, in tenths; -1 stands for None.  int() truncates
\* the remaining XP toward zero to whole XP.
TruncToXp(tenths) ==
    IF tenths >= 0 THEN (tenths \div 10) * 10 ELSE 0 - ((0 - tenths) \div 10) * 10

get_xp_to_next_level_unclamped(xp_table, current_level, current_xp) ==
    IF current_level >= max_level(xp_table) THEN -1
    ELSE IF (current_level + 1) \notin DOMAIN xp_table THEN -1
    ELSE TruncToXp(xp_table[current_level + 1] - current_xp)

get_xp_to_next_level(xp_table, current_level, current_xp) ==
    IF current_level >= max_level(xp_table) THEN -1
    ELSE IF (current_level + 1) \notin DOMAIN xp_table THEN -1
    ELSE Max(0, TruncToXp(xp_table[current_level + 1] - current_xp))

\* --------------------------------------------------------- TimelineMonitor
\* the API call behind check_timeline: the user's tweets newer than since_id
get_user_timeline(user, since_id, existing) ==
    {t \in 1..existing : TweetAuthor(t) = user /\ t > since_id}

filter_original_posts(tweets) ==
    {t \in tweets : ~TweetIsReply(t) /\ ~TweetIsRetweet(t)}

filter_retweets(tweets) == {t \in tweets : TweetIsRetweet(t)}

\* Tweet objects on their own: the author and the flags from_api_response
\* derives from referenced_tweets
Authors == {"oshi", "group", "other"}

is_oshi_post_with_replies(tweet) ==
    tweet.author_id = "oshi" /\ ~tweet.is_retweet

is_oshi_post(tweet) ==
    tweet.author_id = "oshi" /\ ~tweet.is_reply /\ ~tweet.is_retweet

is_group_post(tweet) ==
    tweet.author_id = "group" /\ ~tweet.is_reply /\ ~tweet.is_retweet

\* classify_tweet: "oshi", "group" or None ("none")
classify_tweet(tweet) ==
    IF is_oshi_post(tweet) THEN "oshi"
    ELSE IF is_group_post(tweet) THEN "group"
    ELSE "none"

\* a set of tweet ids as a list in ascending id order
AsList(tweets) ==
    LET RECURSIVE Build(_, _)
        Build(rest, acc) ==
            IF rest = {} THEN acc
            ELSE LET m == CHOOSE x \in rest : \A y \in rest : x <= y
                 IN Build(rest \ {m}, Append(acc, m))
    IN Build(tweets, << >>)

\* ----------------------------------------------------------- DailyReporter
\* JST = timezone(timedelta(hours=9)); current_time.astimezone(JST) of a
\* UTC time [day, hour]
JST_OFFSET_HOURS == 9

astimezone_JST(utc) ==
    [day |-> utc.day + (utc.hour + JST_OFFSET_HOURS) \div 24,
     hour |-> (utc.hour + JST_OFFSET_HOURS) % 24]

\* the date of a time already converted to JST
get_today_date_jst(current_time) == current_time.day

should_post_daily_report_any_date(state, current_time) ==
    current_time.hour >= DAILY_REPORT_HOUR

should_post_daily_report(state, current_time) ==
    /\ current_time.hour >= DAILY_REPORT_HOUR
    /\ state.last_daily_report_date # get_today_date_jst(current_time)

should_post_morning_content(prev_daily_oshi_count, current_time) ==
    IF current_time.hour # MORNING_HOUR THEN FALSE
    ELSE prev_daily_oshi_count <= LOW_ACTIVITY_THRESHOLD

\* weekday() of the JST date: Monday is 0; day 1 of the model is a Sunday
Weekday(day) == (day + 5) % 7

should_post_translation(current_time) == Weekday(current_time.day) = SUNDAY

\* ProfileUpdater.get_current_month_jst
MonthOf(day) == (day - 1) \div 30 + 1

should_update_profile(last_profile_update_month, current_month) ==
    IF last_profile_update_month = 0 THEN TRUE
    ELSE current_month # last_profile_update_month

\* ------------------------------------------------------------- StateStore
reset_daily_counts_partial(state) ==
    [state EXCEPT !.daily_oshi_count = 0,
                  !.daily_group_count = 0,
                  !.daily_repost_count = 0,
                  !.daily_like_count = 0]

\* reset_daily_counts
reset_daily_counts(state) ==
    [state EXCEPT !.daily_oshi_count = 0,
                  !.daily_group_count = 0,
                  !.daily_repost_count = 0,
                  !.daily_like_count = 0,
                  !.daily_xp = 0]

ConditionHoldsAlways(table, tweet_id, action_type) == TRUE

ConditionHoldsPair(table, tweet_id, action_type) ==
    ~\E item \in table :
        item.tweet_id = tweet_id /\ item.action_type = action_type

\* The conditional put of acquire_tweet_lock on the processed-tweets table
\* (items keyed by tweet_id): ConditionExpression attribute_not_exists(tweet_id).
\* TRUE when the put is accepted.
ConditionHolds(table, tweet_id, action_type) ==
    ~\E item \in table : item.tweet_id = tweet_id

LockItem(tweet_id, action_type) ==
    [tweet_id |-> tweet_id, action_type |-> action_type]

\* acquire_tweet_lock: returns True ("Acquired"), raises
\* TweetAlreadyProcessedError on ConditionalCheckFailedException
\* ("AlreadyProcessed"), re-raises any other ClientError ("StoreError")
acquire_tweet_lock(table, tweet_id, action_type, store_ok) ==
    IF ~store_ok THEN "StoreError"
    ELSE IF ConditionHolds(table, tweet_id, action_type) THEN "Acquired"
    ELSE "AlreadyProcessed"

\* the table after the call
TableAfter(table, tweet_id, action_type, outcome) ==
    IF outcome = "Acquired"
    THEN table \cup {LockItem(tweet_id, action_type)}
    ELSE table

\* ------------------------------------------------------- _process_bot_logic
\* state.cumulative_xp += xp; state.daily_xp += xp
AddXp(state, xp) ==
    [state EXCEPT !.cumulative_xp = @ + xp, !.daily_xp = @ + xp]

\* the XP grant of one detected post / retweet: XP plus the lifetime and
\* the daily counter of its kind
GrantActivity(state, activity_type, counter, daily_counter) ==
    [AddXp(state, calculate_xp(activity_type, 1))
        EXCEPT ![counter] = @ + 1, ![daily_counter] = @ + 1]

\* _check_engagement_safe once the metrics response has data: the new
\* likes / retweets since the stored totals
NewCount(total, stored_total) == Max(0, total - stored_total)

\* calculate_xp raising inside the try: the except returns 0.0 before
\* anything was assigned
engagement_raises(state, total_likes, total_retweets) ==
    \/ calculate_xp_raises(NewCount(total_likes, state.total_received_likes))
    \/ calculate_xp_raises(NewCount(total_retweets, state.total_received_retweets))

engagement_xp(state, total_likes, total_retweets) ==
    calculate_xp("like", NewCount(total_likes, state.total_received_likes))
    + calculate_xp("repost", NewCount(total_retweets, state.total_received_retweets))

check_engagement_signed(state, total_likes, total_retweets) ==
    LET new_likes == total_likes - state.total_received_likes
        new_retweets == total_retweets - state.total_received_retweets
    IN [AddXp(state, calculate_xp("like", new_likes)
                     + calculate_xp("repost", new_retweets))
        EXCEPT !.total_received_likes = total_likes,
               !.total_received_retweets = total_retweets,
               !.like_count = @ + new_likes,
               !.daily_like_count = @ + new_likes,
               !.repost_count = @ + new_retweets,
               !.daily_repost_count = @ + new_retweets]

check_engagement(state, total_likes, total_retweets) ==
    LET new_likes == NewCount(total_likes, state.total_received_likes)
        new_retweets == NewCount(total_retweets, state.total_received_retweets)
    IN IF engagement_raises(state, total_likes, total_retweets)
       THEN state
       ELSE [AddXp(state, engagement_xp(state, total_likes, total_retweets))
             EXCEPT !.total_received_likes = total_likes,
                    !.total_received_retweets = total_retweets,
                    !.like_count = @ + new_likes,
                    !.daily_like_count = @ + new_likes,
                    !.repost_count = @ + new_retweets,
                    !.daily_repost_count = @ + new_retweets]

\* lines 440-459: which of post_youtube_search and post_translation the
\* morning block calls; the block is entered in core_time mode only
morning_attempts(is_core_time, prev_daily_oshi_count, current_time) ==
    LET entered ==
            is_core_time /\ should_post_morning_content(prev_daily_oshi_count,
                                                         current_time)
    IN [youtube |-> entered,
        translation |-> entered /\ should_post_translation(current_time)]

\* the result dictionary at the top of _process_bot_logic
InitialResult(execution_mode, state) ==
    [execution_mode |-> execution_mode,
     oshi_posts_detected |-> 0, group_posts_detected |-> 0,
     xp_gained |-> 0, level_up |-> FALSE, new_level |-> state.current_level,
     daily_report_posted |-> FALSE, quotes_posted |-> 0,
     new_likes |-> 0, new_retweets |-> 0,
     youtube_posted |-> FALSE, translation_posted |-> FALSE]

\* the work list of one invocation, in the order of the four loops
WorkList(tweets, who) ==
    [k \in 1..Len(AsList(filter_original_posts(tweets))) |->
        [id |-> AsList(filter_original_posts(tweets))[k],
         action_type |-> IF who = "oshi" THEN "quote_oshi" ELSE "quote_group"]]
    \o
    [k \in 1..Len(AsList(filter_retweets(tweets))) |->
        [id |-> AsList(filter_retweets(tweets))[k],
         action_type |-> IF who = "oshi" THEN "retweet_oshi" ELSE "retweet_group"]]

\* Tweet.id is a string of decimal digits: the n-th tweet of the timelines
\* has the id FirstTweetNumber + n - 1 ("9", "10", "11", ...), so that ids
\* of different lengths are among the first tweets
FirstTweetNumber == 9

DecimalDigits(n) ==
    IF n < 10 THEN <<n>> ELSE <<n \div 10, n % 10>>

TweetIdText(t) == DecimalDigits(FirstTweetNumber + t - 1)

\* int(t.id)
ParseInt(digits) ==
    IF Len(digits) = 1 THEN digits[1] ELSE digits[1] * 10 + digits[2]

\* a <= b for two strings of digits, as Python compares str
TextLeq(a, b) ==
    IF a[1] # b[1] THEN a[1] < b[1]
    ELSE IF Len(a) = 1 THEN TRUE
    ELSE IF Len(b) = 1 THEN FALSE
    ELSE a[2] <= b[2]

LatestIdAsText(tweets) ==
    CHOOSE t \in tweets :
        \A u \in tweets : TextLeq(TweetIdText(u), TweetIdText(t))

\* latest_id = max(all_tweets, key=lambda t: int(t.id)).id
LatestId(tweets) ==
    CHOOSE t \in tweets :
        \A u \in tweets : ParseInt(TweetIdText(u)) <= ParseInt(TweetIdText(t))

StartupFailsOnLoadOnly(state_loaded, table_loaded, xp_table) ==
    \/ ~state_loaded
    \/ ~table_loaded

\* lambda_handler: what happens after load_state / load_xp_table /
\* LevelManager(xp_table); any exception there ends the invocation
StartupFails(state_loaded, table_loaded, xp_table) ==
    \/ ~state_loaded
    \/ ~table_loaded
    \/ LevelManagerRaises(xp_table)

TimeLeq(t1, t2) ==
    \/ t1.day < t2.day
    \/ t1.day = t2.day /\ t1.hour <= t2.hour

NoEffects ==
    [posts |-> 0, reports |-> 0, locks |-> 0, youtube_attempts |-> 0,
     translation_attempts |-> 0, analysis_threads |-> 0]

\* ------------------------------------------------------------------ state
VARIABLES
    stored,        \* the item of the state table
    processed,     \* the processed-tweets table: a set of lock items
    numTweets,     \* tweets 1..numTweets exist on the timelines
    now,           \* the wall clock, as last read
    pc,            \* per invocation: where it is in lambda_handler
    st,            \* per invocation: its BotState object
    res,           \* per invocation: its result dictionary
    todo,          \* per invocation: posts still to be processed
    all_tweets,    \* per invocation: the all_tweets list (as ids)
    loaded,        \* history: the state as loaded by the invocation
    cause,         \* history: what made the invocation abort
    effects,       \* history: external effects of the invocation so far
    acqCount,      \* history: per tweet, acquires that succeeded
    alreadyCount,  \* history: per tweet, acquires answered already-processed
    grantCount,    \* history: per tweet, XP grants
    pubCount,      \* history: per tweet, quote posts published
    genCount,      \* history: per tweet, generate_response calls
    failCount,     \* history: per tweet, actions that failed after the lock
    saves,         \* history: successful writes of the state item
    savedXp,       \* history: XP gained by the invocations that saved
    guardLog,      \* history: direct calls of acquire_tweet_lock
    mediaCount,    \* history: quote posts published with media since the
                   \* last daily report that was posted
    returned,      \* history: per invocation, the tweets its polls returned
    reportsOn,     \* history: per JST date, daily reports posted
    call           \* a function applied on its own: name, arguments, result

vars == <<stored, processed, numTweets, now, pc, st, res, todo,
          all_tweets, loaded, cause, effects, acqCount,
          alreadyCount, grantCount, pubCount, genCount, failCount, saves,
          savedXp, guardLog, mediaCount, returned, reportsOn, catalogue,
          call>>

world == <<stored, processed, numTweets, now>>
hist == <<acqCount, alreadyCount, grantCount, pubCount, genCount, failCount>>
writes == <<saves, savedXp>>

\* no function has been applied on its own
NoCall == [fn |-> "none"]

\* the stores, the timelines and the invocations before anything has run
ProgramInit ==
    /\ stored = SaveItem(BotState)
    /\ processed = {}
    /\ numTweets = 0
    /\ now = [day |-> 1, hour |-> 9]
    /\ pc = [i \in Invocations |-> "idle"]
    /\ st = [i \in Invocations |-> BotState]
    /\ res = [i \in Invocations |-> InitialResult("daily_report", BotState)]
    /\ todo = [i \in Invocations |-> << >>]
    /\ all_tweets = [i \in Invocations |-> {}]
    /\ loaded = [i \in Invocations |-> BotState]
    /\ cause = [i \in Invocations |-> "none"]
    /\ effects = [i \in Invocations |-> NoEffects]
    /\ acqCount = [t \in TweetIds |-> 0]
    /\ alreadyCount = [t \in TweetIds |-> 0]
    /\ grantCount = [t \in TweetIds |-> 0]
    /\ pubCount = [t \in TweetIds |-> 0]
    /\ genCount = [t \in TweetIds |-> 0]
    /\ failCount = [t \in TweetIds |-> 0]
    /\ saves = 0
    /\ savedXp = 0
    /\ guardLog = << >>
    /\ mediaCount = 0
    /\ returned = [i \in Invocations |-> {}]
    /\ reportsOn = [date \in 1..MaxDay |-> 0]

Init ==
    /\ ProgramInit
    /\ catalogue = "mixed"
    /\ call = NoCall

\* ---------------------------------------------------------------- actions
Bump(f, t) == [f EXCEPT ![t] = @ + 1]

\* the handler returns (or raises): its local objects are gone
Return(i) ==
    /\ st' = [st EXCEPT ![i] = BotState]
    /\ res' = [res EXCEPT ![i] = InitialResult("daily_report", BotState)]
    /\ loaded' = [loaded EXCEPT ![i] = BotState]
    /\ effects' = [effects EXCEPT ![i] = NoEffects]
    /\ returned' = [returned EXCEPT ![i] = {}]

\* a tweet is posted on one of the watched timelines
Appear ==
    /\ numTweets < MaxPosts
    /\ numTweets' = numTweets + 1
    /\ UNCHANGED <<stored, processed, now, pc, st, res, todo,
                   all_tweets, loaded, cause, effects,
                   guardLog, catalogue, call, returned, reportsOn, mediaCount>>
    /\ UNCHANGED hist
    /\ UNCHANGED writes

\* lambda_handler up to the call of _process_bot_logic
Start(i) ==
    /\ pc[i] = "idle"
    /\ \A j \in StartsBefore(i) : pc[j] # "idle"
    /\ \E execution_mode \in Modes, state_loaded \in BOOLEAN,
          table_loaded \in BOOLEAN, xp_table \in {XPTable, << >>} :
          LET state == LoadState(stored) IN
          /\ st' = [st EXCEPT ![i] = state]
          /\ loaded' = [loaded EXCEPT ![i] = state]
          /\ res' = [res EXCEPT ![i] = InitialResult(execution_mode, state)]
          /\ cause' = [cause EXCEPT ![i] =
                  IF ~state_loaded THEN "load_state"
                  ELSE IF ~table_loaded THEN "load_xp_table"
                  ELSE IF DOMAIN xp_table = {} THEN "empty_xp_table"
                  ELSE "none"]
          /\ pc' = [pc EXCEPT ![i] =
                  IF StartupFails(state_loaded, table_loaded, xp_table)
                  THEN "aborted"
                  ELSE IF execution_mode = "core_time" THEN "poll_oshi"
                  ELSE "engage"]
    /\ todo' = [todo EXCEPT ![i] = << >>]
    /\ all_tweets' = [all_tweets EXCEPT ![i] = {}]
    /\ effects' = [effects EXCEPT ![i] = NoEffects]
    /\ returned' = [returned EXCEPT ![i] = {}]
    /\ UNCHANGED <<world, guardLog, catalogue, call, reportsOn, mediaCount>>
    /\ UNCHANGED hist
    /\ UNCHANGED writes

\* _check_engagement_safe (daily_report mode only)
Engage(i) ==
    /\ pc[i] = "engage"
    /\ \/ \* the API call raises, or the response has no "data"
          UNCHANGED <<st, res>>
       \/ \E total_likes \in 0..MaxMetric, total_retweets \in 0..MaxMetric :
             LET state == check_engagement(st[i], total_likes, total_retweets)
             IN /\ st' = [st EXCEPT ![i] = state]
                /\ res' = [res EXCEPT ![i] =
                      IF engagement_raises(st[i], total_likes, total_retweets)
                      THEN @
                      ELSE [@ EXCEPT
                        !.new_likes = NewCount(total_likes,
                                          st[i].total_received_likes),
                        !.new_retweets = NewCount(total_retweets,
                                          st[i].total_received_retweets),
                        !.xp_gained = @ + engagement_xp(st[i], total_likes,
                                                        total_retweets)]]
    /\ pc' = [pc EXCEPT ![i] = "poll_oshi"]
    /\ UNCHANGED <<world, todo, all_tweets, loaded,
                   cause, effects, guardLog, catalogue, call, returned, reportsOn, mediaCount>>
    /\ UNCHANGED hist
    /\ UNCHANGED writes

\* _check_timeline_safe(check_oshi_timeline): [] when the call fails
PollOshi(i) ==
    /\ pc[i] = "poll_oshi"
    /\ \E poll_ok \in BOOLEAN :
          LET oshi_tweets == IF poll_ok
                             THEN get_user_timeline("oshi", st[i].latest_tweet_id, numTweets)
                             ELSE {}
          IN /\ todo' = [todo EXCEPT ![i] = WorkList(oshi_tweets, "oshi")]
             /\ returned' = [returned EXCEPT ![i] = oshi_tweets]
             /\ pc' = [pc EXCEPT ![i] =
                   IF res[i].execution_mode = "core_time"
                   THEN (IF WorkList(oshi_tweets, "oshi") = << >> THEN "level" ELSE "process")
                   ELSE "poll_group"]
    /\ UNCHANGED <<world, st, res, all_tweets, loaded,
                   cause, effects, guardLog, catalogue, call, reportsOn,
                   mediaCount>>
    /\ UNCHANGED hist
    /\ UNCHANGED writes

\* _check_timeline_safe(check_group_timeline), daily_report mode only
PollGroup(i) ==
    /\ pc[i] = "poll_group"
    /\ \E poll_ok \in BOOLEAN :
          LET group_tweets == IF poll_ok
                              THEN get_user_timeline("group", st[i].latest_tweet_id, numTweets)
                              ELSE {}
              work == todo[i] \o WorkList(group_tweets, "group")
          IN /\ todo' = [todo EXCEPT ![i] = work]
             /\ returned' = [returned EXCEPT ![i] = @ \cup group_tweets]
             /\ pc' = [pc EXCEPT ![i] = IF work = << >> THEN "level" ELSE "process"]
    /\ UNCHANGED <<world, st, res, all_tweets, loaded,
                   cause, effects, guardLog, catalogue, call, reportsOn,
                   mediaCount>>
    /\ UNCHANGED hist
    /\ UNCHANGED writes

\* all_tweets.append(tweet) and on to the next tweet of the loops
NextTweet(i) ==
    /\ all_tweets' = [all_tweets EXCEPT ![i] = @ \cup {Head(todo[i]).id}]
    /\ todo' = [todo EXCEPT ![i] = Tail(@)]
    /\ pc' = [pc EXCEPT ![i] = IF Tail(todo[i]) = << >> THEN "level" ELSE "process"]

\* one iteration of a quote loop: _post_quote_safe and the XP grant
ProcessQuote(i) ==
    /\ pc[i] = "process"
    /\ todo[i] # << >>
    /\ Head(todo[i]).action_type \in {"quote_oshi", "quote_group"}
    /\ LET t == Head(todo[i]).id
           action_type == Head(todo[i]).action_type
           post_type == IF action_type = "quote_oshi" THEN "oshi" ELSE "group"
       IN \E store_ok \in BOOLEAN, post_ok \in BOOLEAN, media \in BOOLEAN :
          LET outcome == acquire_tweet_lock(processed, t, action_type, store_ok)
              attach == media /\ post_type = "oshi" /\ ~st[i].daily_image_posted
              state == IF attach THEN [st[i] EXCEPT !.daily_image_posted = TRUE]
                       ELSE st[i]
          IN /\ processed' = TableAfter(processed, t, action_type, outcome)
             /\ IF outcome = "Acquired"
                THEN /\ acqCount' = Bump(acqCount, t)
                     /\ genCount' = Bump(genCount, t)
                     /\ alreadyCount' = alreadyCount
                     /\ IF post_ok
                        THEN /\ pubCount' = Bump(pubCount, t)
                             /\ grantCount' = Bump(grantCount, t)
                             /\ failCount' = failCount
                             /\ mediaCount' = IF attach THEN mediaCount + 1
                                              ELSE mediaCount
                             /\ effects' = [effects EXCEPT ![i].locks = @ + 1,
                                                           ![i].posts = @ + 1]
                             /\ st' = [st EXCEPT ![i] =
                                   IF post_type = "oshi"
                                   THEN GrantActivity(state, "oshi_post",
                                            "oshi_post_count", "daily_oshi_count")
                                   ELSE GrantActivity(state, "group_post",
                                            "group_post_count", "daily_group_count")]
                             /\ res' = [res EXCEPT
                                   ![i].quotes_posted = @ + 1,
                                   ![i].oshi_posts_detected =
                                        IF post_type = "oshi" THEN @ + 1 ELSE @,
                                   ![i].group_posts_detected =
                                        IF post_type = "group" THEN @ + 1 ELSE @,
                                   ![i].xp_gained = @ + calculate_xp(
                                        IF post_type = "oshi" THEN "oshi_post"
                                        ELSE "group_post", 1)]
                        ELSE \* post_tweet raises: handle_api_error, return False
                             /\ failCount' = Bump(failCount, t)
                             /\ effects' = [effects EXCEPT ![i].locks = @ + 1]
                             /\ st' = [st EXCEPT ![i] = state]
                             /\ UNCHANGED <<pubCount, grantCount, res, mediaCount>>
                ELSE /\ alreadyCount' = IF outcome = "AlreadyProcessed"
                                        THEN Bump(alreadyCount, t)
                                        ELSE alreadyCount
                     /\ UNCHANGED <<acqCount, genCount, pubCount, grantCount,
                                    failCount, effects, st, res, mediaCount>>
    /\ NextTweet(i)
    /\ UNCHANGED <<stored, numTweets, now, loaded, cause,
                   guardLog, catalogue, call, returned, reportsOn, saves, savedXp>>

\* one iteration of a retweet loop: the lock and the XP grant, no quote post
ProcessRetweet(i) ==
    /\ pc[i] = "process"
    /\ todo[i] # << >>
    /\ Head(todo[i]).action_type \in {"retweet_oshi", "retweet_group"}
    /\ LET t == Head(todo[i]).id
           action_type == Head(todo[i]).action_type
       IN \E store_ok \in BOOLEAN :
          LET outcome == acquire_tweet_lock(processed, t, action_type, store_ok)
          IN /\ processed' = TableAfter(processed, t, action_type, outcome)
             /\ CASE outcome = "Acquired" ->
                     /\ acqCount' = Bump(acqCount, t)
                     /\ grantCount' = Bump(grantCount, t)
                     /\ effects' = [effects EXCEPT ![i].locks = @ + 1]
                     /\ st' = [st EXCEPT ![i] =
                           GrantActivity(@, "repost", "repost_count",
                                         "daily_repost_count")]
                     /\ res' = [res EXCEPT ![i].xp_gained =
                                    @ + calculate_xp("repost", 1)]
                     /\ NextTweet(i)
                     /\ UNCHANGED <<alreadyCount, cause, loaded, returned>>
                  [] outcome = "AlreadyProcessed" ->
                     /\ alreadyCount' = Bump(alreadyCount, t)
                     /\ NextTweet(i)
                     /\ UNCHANGED <<acqCount, grantCount, effects, st, res,
                                    cause, loaded, returned>>
                  [] outcome = "StoreError" ->
                     \* only TweetAlreadyProcessedError is caught: the
                     \* ClientError leaves _process_bot_logic
                     /\ pc' = [pc EXCEPT ![i] = "aborted"]
                     /\ cause' = [cause EXCEPT ![i] = "acquire_tweet_lock"]
                     /\ todo' = [todo EXCEPT ![i] = << >>]
                     /\ all_tweets' = [all_tweets EXCEPT ![i] = {}]
                     /\ Return(i)
                     /\ UNCHANGED <<acqCount, alreadyCount, grantCount>>
    /\ UNCHANGED <<stored, numTweets, now,
                   guardLog, catalogue, call, reportsOn, mediaCount,
                   pubCount, genCount, failCount, saves, savedXp>>

\* lines 373-419: the watermark, check_level_up and, on a level-up,
\* _update_profile_on_level_up (which catches its own failures)
Level(i) ==
    /\ pc[i] = "level"
    /\ LET s1 == IF all_tweets[i] # {}
                 THEN [st[i] EXCEPT !.latest_tweet_id = LatestId(all_tweets[i])]
                 ELSE st[i]
           lv == check_level_up(XPTable, s1.current_level, s1.cumulative_xp)
           s2 == [s1 EXCEPT !.current_level = lv[2]]
           current_month == MonthOf(now.day)
       IN IF lv[1]
          THEN /\ \E month_recorded \in BOOLEAN :
                    st' = [st EXCEPT ![i] =
                        IF month_recorded
                           /\ should_update_profile(s2.last_profile_update_month,
                                                    current_month)
                        THEN [s2 EXCEPT !.last_profile_update_month = current_month]
                        ELSE s2]
               /\ res' = [res EXCEPT ![i].level_up = TRUE,
                                     ![i].new_level = lv[2]]
          ELSE /\ st' = [st EXCEPT ![i] = s1]
               /\ res' = res
    /\ pc' = [pc EXCEPT ![i] =
            IF res[i].execution_mode = "core_time" THEN "morning" ELSE "report"]
    /\ all_tweets' = [all_tweets EXCEPT ![i] = {}]
    /\ UNCHANGED <<world, todo, loaded, cause, effects, guardLog, catalogue, call, returned, reportsOn, mediaCount>>
    /\ UNCHANGED hist
    /\ UNCHANGED writes

\* lines 421-438: the daily report (daily_report mode); the morning block
\* after it is guarded by is_core_time and calls nothing in this mode.
\* Nothing in _process_bot_logic calls post_analysis_thread.
Report(i) ==
    /\ pc[i] = "report"
    /\ \E t \in Times, report_ok \in BOOLEAN :
          /\ TimeLeq(now, t)
          /\ now' = t
          /\ IF should_post_daily_report(st[i], t) /\ report_ok
             THEN \* post_daily_report returned a tweet id
                  /\ st' = [st EXCEPT ![i] = reset_daily_counts(
                          [@ EXCEPT !.last_daily_report_date = get_today_date_jst(t)])]
                  /\ res' = [res EXCEPT ![i].daily_report_posted = TRUE]
                  /\ effects' = [effects EXCEPT ![i].reports = @ + 1]
                  /\ mediaCount' = 0
                  /\ reportsOn' = [reportsOn EXCEPT
                                        ![get_today_date_jst(t)] = @ + 1]
             ELSE UNCHANGED <<st, res, effects, mediaCount, reportsOn>>
    /\ pc' = [pc EXCEPT ![i] = "save"]
    /\ UNCHANGED <<stored, processed, numTweets, todo, all_tweets,
                   loaded, cause, guardLog, catalogue, call, returned>>
    /\ UNCHANGED hist
    /\ UNCHANGED writes

\* lines 440-469: the morning content (core_time mode)
Morning(i) ==
    /\ pc[i] = "morning"
    /\ \E t \in Times, youtube_posted \in BOOLEAN, translation_posted \in BOOLEAN :
          /\ TimeLeq(now, t)
          /\ now' = t
          /\ res' = [res EXCEPT ![i] =
                IF should_post_morning_content(st[i].prev_daily_oshi_count, t)
                THEN [@ EXCEPT
                        !.youtube_posted = youtube_posted,
                        !.translation_posted =
                            should_post_translation(t) /\ translation_posted]
                ELSE @]
          /\ LET attempts == morning_attempts(
                                res[i].execution_mode = "core_time",
                                st[i].prev_daily_oshi_count, t)
             IN effects' = [effects EXCEPT
                    ![i].youtube_attempts =
                        IF attempts.youtube THEN @ + 1 ELSE @,
                    ![i].translation_attempts =
                        IF attempts.translation THEN @ + 1 ELSE @]
    /\ pc' = [pc EXCEPT ![i] = "save"]
    /\ UNCHANGED <<stored, processed, numTweets, st, todo, all_tweets,
                   loaded, cause, guardLog, catalogue, call, returned,
                   reportsOn, mediaCount>>
    /\ UNCHANGED hist
    /\ UNCHANGED writes

\* lines 471-474: state_store.save_state(state); an exception leaves
\* _process_bot_logic
Save(i) ==
    /\ pc[i] = "save"
    /\ \E store_ok \in BOOLEAN :
          IF store_ok
          THEN /\ stored' = PutItem(stored, SaveItem(st[i]))
               /\ saves' = saves + 1
               /\ savedXp' = savedXp + res[i].xp_gained
               /\ pc' = [pc EXCEPT ![i] = "done"]
               /\ cause' = cause
          ELSE /\ pc' = [pc EXCEPT ![i] = "aborted"]
               /\ cause' = [cause EXCEPT ![i] = "save_state"]
               /\ UNCHANGED <<stored, saves, savedXp>>
    /\ Return(i)
    /\ UNCHANGED <<processed, numTweets, now, todo, all_tweets, guardLog,
                   catalogue, call, reportsOn, mediaCount>>
    /\ UNCHANGED hist

Next ==
    \/ Appear
    \/ \E i \in Invocations : Start(i)
    \/ \E i \in Invocations : Engage(i)
    \/ \E i \in Invocations : PollOshi(i)
    \/ \E i \in Invocations : PollGroup(i)
    \/ \E i \in Invocations : ProcessQuote(i)
    \/ \E i \in Invocations : ProcessRetweet(i)
    \/ \E i \in Invocations : Level(i)
    \/ \E i \in Invocations : Report(i)
    \/ \E i \in Invocations : Morning(i)
    \/ \E i \in Invocations : Save(i)

Spec == Init /\ [][Next]_vars

\* ------------------------------------------------- the guard on its own
\* acquire_tweet_lock called directly with any tweet id and action type
GuardCall ==
    /\ Len(guardLog) < MaxCalls
    /\ \E t \in TweetIds, action_type \in ActionTypes, store_ok \in BOOLEAN :
          LET outcome == acquire_tweet_lock(processed, t, action_type, store_ok)
          IN /\ processed' = TableAfter(processed, t, action_type, outcome)
             /\ guardLog' = Append(guardLog,
                    [tweet_id |-> t, action_type |-> action_type,
                     outcome |-> outcome])
    /\ UNCHANGED <<stored, numTweets, now, pc, st, res, todo,
                   all_tweets, loaded, cause, effects, catalogue, call, returned, reportsOn,
                   mediaCount>>
    /\ UNCHANGED hist
    /\ UNCHANGED writes

GuardNext == GuardCall

GuardSpec == Init /\ [][GuardNext]_vars

\* ------------------------------------- invocations one after the other
\* the timelines carry original posts of the oshi only, and an invocation
\* starts when the one before it has ended
MediaInit ==
    /\ ProgramInit
    /\ catalogue = "oshi_posts"
    /\ call = NoCall

SeqStart(i) ==
    /\ \A j \in StartsBefore(i) : pc[j] \in {"done", "aborted"}
    /\ Start(i)

MediaNext ==
    \/ Appear
    \/ \E i \in Invocations : SeqStart(i)
    \/ \E i \in Invocations : Engage(i)
    \/ \E i \in Invocations : PollOshi(i)
    \/ \E i \in Invocations : PollGroup(i)
    \/ \E i \in Invocations : ProcessQuote(i)
    \/ \E i \in Invocations : Level(i)
    \/ \E i \in Invocations : Report(i)
    \/ \E i \in Invocations : Morning(i)
    \/ \E i \in Invocations : Save(i)

MediaSpec == MediaInit /\ [][MediaNext]_vars

\* invocations one after the other over the mixed timelines, or over a
\* timeline of the oshi that carries replies
SeqInit ==
    /\ ProgramInit
    /\ catalogue \in {"mixed", "replies"}
    /\ call = NoCall

SeqNext ==
    \/ Appear
    \/ \E i \in Invocations : SeqStart(i)
    \/ \E i \in Invocations : Engage(i)
    \/ \E i \in Invocations : PollOshi(i)
    \/ \E i \in Invocations : PollGroup(i)
    \/ \E i \in Invocations : ProcessQuote(i)
    \/ \E i \in Invocations : ProcessRetweet(i)
    \/ \E i \in Invocations : Level(i)
    \/ \E i \in Invocations : Report(i)
    \/ \E i \in Invocations : Morning(i)
    \/ \E i \in Invocations : Save(i)

SeqSpec == SeqInit /\ [][SeqNext]_vars

\* ------------------------------------------------------------------ text
\* A str is a sequence of characters; a character is written by its name
\* ("maru" is the ideographic full stop, "LF" the line feed, "x" any
\* character that no function looks for).  Indexes are Python's, from 0.
Slice(text, from, to) == SubSeq(text, from + 1, to)

\* text[:n] for n >= 0
Prefix(text, n) == Slice(text, 0, IF n < Len(text) THEN n ELSE Len(text))

\* text[n:] for n >= 0
Suffix(text, n) == Slice(text, n, Len(text))

OccursAt(text, pattern, k) ==
    /\ k + Len(pattern) <= Len(text)
    /\ Slice(text, k, k + Len(pattern)) = pattern

\* str.find and str.rfind: -1 when the pattern does not occur
find(text, pattern) ==
    IF \E k \in 0..Len(text) : OccursAt(text, pattern, k)
    THEN CHOOSE k \in 0..Len(text) :
            /\ OccursAt(text, pattern, k)
            /\ \A j \in 0..(k - 1) : ~OccursAt(text, pattern, j)
    ELSE -1

rfind(text, pattern) ==
    IF \E k \in 0..Len(text) : OccursAt(text, pattern, k)
    THEN CHOOSE k \in 0..Len(text) :
            /\ OccursAt(text, pattern, k)
            /\ \A j \in (k + 1)..Len(text) : ~OccursAt(text, pattern, j)
    ELSE -1

\* str.replace(pattern, ""): every occurrence, left to right
RECURSIVE Remove(_, _)
Remove(text, pattern) ==
    IF Len(text) < Len(pattern) THEN text
    ELSE IF OccursAt(text, pattern, 0)
         THEN Remove(Suffix(text, Len(pattern)), pattern)
         ELSE <<Head(text)>> \o Remove(Tail(text), pattern)

Whitespace == {" ", "LF"}

\* str.strip()
RECURSIVE lstrip(_)
lstrip(text) ==
    IF text # << >> /\ Head(text) \in Whitespace THEN lstrip(Tail(text))
    ELSE text

RECURSIVE rstrip(_)
rstrip(text) ==
    IF text # << >> /\ text[Len(text)] \in Whitespace
    THEN rstrip(Prefix(text, Len(text) - 1))
    ELSE text

strip(text) == rstrip(lstrip(text))

\* the concatenation of a sequence of strings
RECURSIVE Concat(_)
Concat(pieces) ==
    IF pieces = << >> THEN << >> ELSE Head(pieces) \o Concat(Tail(pieces))

Repeat(c, n) == [k \in 1..n |-> c]

\* the texts made of at most MaxPieces pieces
TextsOf(pieces) ==
    {Concat(ps) : ps \in UNION {[1..k -> pieces] : k \in 0..MaxPieces}}

\* DailyReporter._truncate_analysis
summary_markers ==
    <<<<"zen", "tai", "to", "shi", "te">>,
      <<"ma", "to", "me", "ru", "to">>,
      <<"sou", "ji", "te">>,
      <<"ketsu", "ron", "to", "shi", "te">>,
      <<"zen", "tai", "teki", "ni">>>>

sentence_separators ==
    <<"maru", "bang", "sparkles", "purple_heart", "ribbon", "LF">>

\* the loop over summary_markers: the tail from the last occurrence of the
\* first marker that occurs, "" when none does
RECURSIVE FindSummary(_, _)
FindSummary(text, k) ==
    IF k > Len(summary_markers) THEN << >>
    ELSE IF rfind(text, summary_markers[k]) >= 0
         THEN Suffix(text, rfind(text, summary_markers[k]))
         ELSE FindSummary(text, k + 1)

\* the loop over the separators on the hard-cut text
RECURSIVE CutAtSeparator(_, _, _)
CutAtSeparator(truncated, max_len, k) ==
    IF k > Len(sentence_separators) THEN truncated
    ELSE IF rfind(truncated, <<sentence_separators[k]>>) > max_len \div 2
         THEN Prefix(truncated, rfind(truncated, <<sentence_separators[k]>>) + 1)
         ELSE CutAtSeparator(truncated, max_len, k + 1)

truncate_analysis_keep_summary(text, max_len) ==
    IF Len(text) <= max_len THEN text
    ELSE IF FindSummary(text, 1) # << >> THEN FindSummary(text, 1)
    ELSE CutAtSeparator(Prefix(text, max_len), max_len, 1)

truncate_analysis(text, max_len) ==
    IF Len(text) <= max_len THEN text
    ELSE LET summary == FindSummary(text, 1)
             first_line_end == find(text, <<"LF">>)
         IN IF summary # << >> /\ Len(summary) + SUMMARY_MARGIN < max_len
            THEN IF first_line_end > 0
                    /\ first_line_end + Len(summary) + 1 <= max_len
                 THEN Prefix(text, first_line_end) \o <<"LF">> \o summary
                 ELSE summary
            ELSE CutAtSeparator(Prefix(text, max_len), max_len, 1)

\* AIGenerator.truncate_text
hashtags ==
    <<"#", "sa", "tsu", "ma", "i", "mo", "no", "tami", " ",
      "#", "bi", "xtsu", "ku", "e", "n", "ji", "xe", "ru">>

truncate_text(text, max_length) ==
    IF Len(text) <= max_length THEN text
    ELSE LET content_max_len == max_length - Len(hashtags) - 1
             text_without_hashtags == strip(Remove(text, hashtags))
         IN IF Len(text_without_hashtags) > content_max_len
            THEN Prefix(text_without_hashtags, content_max_len - ELLIPSIS_LENGTH)
                 \o <<".", ".", ".">> \o <<" ">> \o hashtags
            ELSE text

\* DailyReporter._extract_analysis_text.  The tags <think> and </think> are
\* single characters of the texts.  No text over the characters drawn below
\* is a JSON object, holds a backslash, Markdown ("*", "#", "-", "`") or a
\* digit, so json.loads fails, and the replace of "\\n" and the Markdown
\* and tweet-id substitutions find nothing to change.
ThinkOpen == <<"<think>">>

ThinkClose == <<"</think>">>

\* re.search(r"<think>(.*?)(?:</think>|$)", text).group(1), "" without a
\* match
think_content(text) ==
    LET open == find(text, ThinkOpen)
        rest == Suffix(text, open + 1)
        close == find(rest, ThinkClose)
    IN IF open = -1 THEN << >>
       ELSE IF close = -1 THEN rest
       ELSE Prefix(rest, close)

\* re.sub(r"<think>.*?</think>", "", text)
RECURSIVE remove_closed_think(_)
remove_closed_think(text) ==
    LET open == find(text, ThinkOpen)
        rest == Suffix(text, open + 1)
        close == find(rest, ThinkClose)
    IN IF open = -1 \/ close = -1 THEN text
       ELSE Prefix(text, open) \o remove_closed_think(Suffix(rest, close + 1))

\* re.sub(r"<think>.*", "", cleaned)
remove_open_think(text) ==
    IF find(text, ThinkOpen) = -1 THEN text
    ELSE Prefix(text, find(text, ThinkOpen))

\* the number of characters of text from index from (0-based) on that are
\* in the class
RECURSIVE RunLength(_, _, _)
RunLength(text, from, class) ==
    IF from < Len(text) /\ text[from + 1] \in class
    THEN 1 + RunLength(text, from + 1, class)
    ELSE 0

\* the classes [\s,"] and \w
ResidueLead == Whitespace \cup {",", "\""}

WordChars == {"x"}

\* re.sub(r'^[\s,"]+\s*"?\w+"?\s*:.*', "", cleaned, flags=re.DOTALL): the
\* match starts at the start of the text and runs to its end
remove_json_residue(text) ==
    LET lead == RunLength(text, 0, ResidueLead)
        word == RunLength(text, lead, WordChars)
        quote == IF lead + word < Len(text) /\ text[lead + word + 1] = "\""
                 THEN 1 ELSE 0
        space == RunLength(text, lead + word + quote, Whitespace)
        colon == lead + word + quote + space
    IN IF /\ lead >= 1
          /\ word >= 1
          /\ colon < Len(text)
          /\ text[colon + 1] = ":"
       THEN << >>
       ELSE text

\* re.split over a class of separator characters
RECURSIVE split(_, _)
split(text, separators) ==
    LET first == RunLength(text, 0, {c \in {text[k] : k \in 1..Len(text)} :
                                        c \notin separators})
    IN IF first = Len(text) THEN <<text>>
       ELSE <<Prefix(text, first)>> \o split(Suffix(text, first + 1), separators)

\* [s.strip() for s in re.split(..., think_content) if s.strip()]
sentences_of(content, separators) ==
    LET parts == split(content, separators)
        stripped == [k \in 1..Len(parts) |-> strip(parts[k])]
        NotEmpty(part) == part # << >>
    IN SelectSeq(stripped, NotEmpty)

\* re.sub(r"\n{3,}", "\n\n", cleaned)
RECURSIVE collapse_newlines(_)
collapse_newlines(text) ==
    LET run == RunLength(text, 0, {"LF"})
    IN IF text = << >> THEN text
       ELSE IF run >= 3 THEN <<"LF", "LF">> \o collapse_newlines(Suffix(text, run))
       ELSE IF run >= 1 THEN Prefix(text, run) \o collapse_newlines(Suffix(text, run))
       ELSE <<Head(text)>> \o collapse_newlines(Tail(text))

\* the separators of re.split(r"[maru LF]", think_content)
fallback_separators == {"maru", "LF"}

extract_analysis_text(raw) ==
    LET cleaned == strip(remove_json_residue(
                       remove_open_think(remove_closed_think(raw))))
        sentences == sentences_of(think_content(raw), fallback_separators)
        fallback == IF cleaned = << >> /\ think_content(raw) # << >>
                       /\ sentences # << >>
                    THEN sentences[Len(sentences)]
                    ELSE cleaned
    IN strip(collapse_newlines(fallback))

\* ------------------------------------------- functions applied on their own
\* everything but the call
program ==
    <<stored, processed, numTweets, now, pc, st, res, todo, all_tweets,
      loaded, cause, effects, acqCount, alreadyCount, grantCount, pubCount,
      genCount, failCount, saves, savedXp, guardLog, mediaCount, returned,
      reportsOn, catalogue>>

UtcTimes == [day : 1..(MaxDay + 1), hour : 0..23]

\* ----- the score of a BotState as the floats the program computes with
\* BotState() with cumulative_xp = 0.0 and daily_xp = 0.0 as floats
BotStateFloat ==
    [BotState EXCEPT !.cumulative_xp = BigZero, !.daily_xp = BigZero]

\* state.cumulative_xp += xp; state.daily_xp += xp
AddXpFloat(state, xp) ==
    [state EXCEPT !.cumulative_xp = FloatAdd(@, xp),
                  !.daily_xp = FloatAdd(@, xp)]

\* the XP grant of one detected post / retweet
GrantActivityFloat(state, activity_type, counter, daily_counter) ==
    [AddXpFloat(state, calculate_xp_float(activity_type, 1))
        EXCEPT ![counter] = @ + 1, ![daily_counter] = @ + 1]

check_engagement_float_lifetime_only(state, total_likes, total_retweets) ==
    LET new_likes == NewCount(total_likes, state.total_received_likes)
        new_retweets == NewCount(total_retweets, state.total_received_retweets)
        total_xp == FloatAdd(calculate_xp_float("like", new_likes),
                             calculate_xp_float("repost", new_retweets))
    IN [state EXCEPT !.cumulative_xp = FloatAdd(@, total_xp),
                     !.total_received_likes = total_likes,
                     !.total_received_retweets = total_retweets,
                     !.like_count = @ + new_likes,
                     !.daily_like_count = @ + new_likes,
                     !.repost_count = @ + new_retweets,
                     !.daily_repost_count = @ + new_retweets]

\* _check_engagement_safe, lines 752-770: total_xp = like_xp + retweet_xp
check_engagement_float(state, total_likes, total_retweets) ==
    LET new_likes == NewCount(total_likes, state.total_received_likes)
        new_retweets == NewCount(total_retweets, state.total_received_retweets)
        total_xp == FloatAdd(calculate_xp_float("like", new_likes),
                             calculate_xp_float("repost", new_retweets))
    IN [AddXpFloat(state, total_xp)
        EXCEPT !.total_received_likes = total_likes,
               !.total_received_retweets = total_retweets,
               !.like_count = @ + new_likes,
               !.daily_like_count = @ + new_likes,
               !.repost_count = @ + new_retweets,
               !.daily_repost_count = @ + new_retweets]

\* reset_daily_counts: daily_xp = 0.0
reset_daily_counts_float(state) ==
    [reset_daily_counts(state) EXCEPT !.daily_xp = BigZero]

\* sum of BotState.get_xp_breakdown(): count * rate per kind, int * float
get_xp_breakdown(state) ==
    FloatAdd(FloatAdd(FloatAdd(
        FloatMulInt(RateFloat("oshi_post"), state.oshi_post_count),
        FloatMulInt(RateFloat("group_post"), state.group_post_count)),
        FloatMulInt(RateFloat("repost"), state.repost_count)),
        FloatMulInt(RateFloat("like"), state.like_count))

\* sum of BotState.get_daily_xp_breakdown()
get_daily_xp_breakdown(state) ==
    FloatAdd(FloatAdd(FloatAdd(
        FloatMulInt(RateFloat("oshi_post"), state.daily_oshi_count),
        FloatMulInt(RateFloat("group_post"), state.daily_group_count)),
        FloatMulInt(RateFloat("repost"), state.daily_repost_count)),
        FloatMulInt(RateFloat("like"), state.daily_like_count))

\* the same sums in tenths of an XP
XpOfCounts(state) ==
    get_rate("oshi_post") * state.oshi_post_count
    + get_rate("group_post") * state.group_post_count
    + get_rate("repost") * state.repost_count
    + get_rate("like") * state.like_count

DailyXpOfCounts(state) ==
    get_rate("oshi_post") * state.daily_oshi_count
    + get_rate("group_post") * state.daily_group_count
    + get_rate("repost") * state.daily_repost_count
    + get_rate("like") * state.daily_like_count

\* what changes the score of the state: an engagement check that sees the
\* given totals, the grant for a detected post or repost, and the reset
\* after a posted daily report
ScoreEvents ==
    [op : {"engagement"}, total_likes : 0..MaxTotal,
     total_retweets : 0..MaxTotal]
    \cup [op : {"oshi_post", "group_post", "repost", "report"}]

ApplyEventFloat(state, event) ==
    CASE event.op = "engagement" ->
            check_engagement_float(state, event.total_likes,
                                   event.total_retweets)
      [] event.op = "oshi_post" ->
            GrantActivityFloat(state, "oshi_post", "oshi_post_count",
                               "daily_oshi_count")
      [] event.op = "group_post" ->
            GrantActivityFloat(state, "group_post", "group_post_count",
                               "daily_group_count")
      [] event.op = "repost" ->
            GrantActivityFloat(state, "repost", "repost_count",
                               "daily_repost_count")
      [] event.op = "report" -> reset_daily_counts_float(state)

ApplyEvent(state, event) ==
    CASE event.op = "engagement" ->
            check_engagement(state, event.total_likes, event.total_retweets)
      [] event.op = "oshi_post" ->
            GrantActivity(state, "oshi_post", "oshi_post_count",
                          "daily_oshi_count")
      [] event.op = "group_post" ->
            GrantActivity(state, "group_post", "group_post_count",
                          "daily_group_count")
      [] event.op = "repost" ->
            GrantActivity(state, "repost", "repost_count",
                          "daily_repost_count")
      [] event.op = "report" -> reset_daily_counts(state)

RECURSIVE RunEventsFloat(_, _)
RunEventsFloat(state, events) ==
    IF events = << >> THEN state
    ELSE RunEventsFloat(ApplyEventFloat(state, Head(events)), Tail(events))

RECURSIVE RunEvents(_, _)
RunEvents(state, events) ==
    IF events = << >> THEN state
    ELSE RunEvents(ApplyEvent(state, Head(events)), Tail(events))

Inputs_score ==
    [fn : {"score"},
     events : UNION {[1..n -> ScoreEvents] : n \in 1..MaxGrants}]

Inputs_should_post_daily_report ==
    [fn : {"should_post_daily_report"},
     last_daily_report_date : 0..(MaxDay + 2),
     current_time : UtcTimes]

Inputs_should_post_morning_content ==
    [fn : {"should_post_morning_content"},
     prev_daily_oshi_count : 0..(LOW_ACTIVITY_THRESHOLD + 2),
     current_time : UtcTimes]

\* progression tables {level: required_xp}: levels 1..n, level 1 at 0,
\* thresholds (whole XP, in tenths) strictly increasing
ThresholdValues == {0, 10, 20, 140, 310}

XPTables ==
    UNION {{t \in [1..n -> ThresholdValues] :
                /\ t[1] = 0
                /\ \A l \in 1..(n - 1) : t[l] < t[l + 1]} : n \in 1..MaxLevel}

Inputs_calculate_level ==
    [fn : {"calculate_level"}, xp_table : XPTables,
     cumulative_xp : 0..MaxScore]

Inputs_get_xp_to_next_level ==
    {arg \in [fn : {"get_xp_to_next_level"}, xp_table : XPTables,
              current_level : 1..MaxLevel, current_xp : 0..MaxScore] :
        arg.current_level \in DOMAIN arg.xp_table}

Inputs_classify_tweet ==
    [fn : {"classify_tweet"}, author_id : Authors, is_quote_tweet : BOOLEAN,
     is_reply : BOOLEAN, is_retweet : BOOLEAN]

AnalysisPieces ==
    {<<"x">>, Repeat("x", 4), <<"LF">>, <<"maru">>, summary_markers[1]}

Inputs_truncate_analysis ==
    [fn : {"truncate_analysis"}, text : TextsOf(AnalysisPieces),
     max_len : 0..MaxBudget]

ResponsePieces == {Repeat("x", 60), <<"x">>, <<" ">>, hashtags}

Inputs_truncate_text ==
    [fn : {"truncate_text"}, text : TextsOf(ResponsePieces)]

RawPieces ==
    {ThinkOpen, ThinkClose, <<"x">>, <<".">>, <<"maru">>, <<"LF">>, <<":">>}

Inputs_extract_analysis_text ==
    [fn : {"extract_analysis_text"}, raw : TextsOf(RawPieces)]

Inputs_calculate_xp ==
    [fn : {"calculate_xp"}, activity_type : ActivityTypes,
     count1 : 0..MaxCount, count2 : 0..MaxCount]

\* states handed to save_state: the fields are varied independently
Inputs_save_state ==
    {[fn |-> "save_state",
      state |-> [BotState EXCEPT !.cumulative_xp = xp,
                                 !.current_level = level,
                                 !.latest_tweet_id = tweet,
                                 !.daily_oshi_count = count,
                                 !.last_daily_report_date = date,
                                 !.daily_image_posted = image,
                                 !.prev_daily_oshi_count = prev]] :
        xp \in {0, RATE_OSHI_POST}, level \in 1..MaxLevel,
        tweet \in 0..MaxPosts, count \in 0..1, date \in 0..MaxDay,
        image \in BOOLEAN, prev \in 0..1}

Pending(arg) == [fn |-> arg.fn, arg |-> arg, done |-> FALSE, out |-> FALSE]

Returned(value) == [call EXCEPT !.done = TRUE, !.out = value]

FunInputs ==
    Inputs_should_post_daily_report
    \cup Inputs_should_post_morning_content
    \cup Inputs_calculate_level
    \cup Inputs_get_xp_to_next_level
    \cup Inputs_classify_tweet
    \cup Inputs_truncate_analysis
    \cup Inputs_truncate_text
    \cup Inputs_calculate_xp
    \cup Inputs_save_state
    \cup Inputs_score
    \cup Inputs_extract_analysis_text

FunInit ==
    /\ ProgramInit
    /\ catalogue = "mixed"
    /\ \E arg \in FunInputs : call = Pending(arg)

Call_should_post_daily_report ==
    /\ call.fn = "should_post_daily_report"
    /\ ~call.done
    /\ call' = Returned(should_post_daily_report(
                    [last_daily_report_date |-> call.arg.last_daily_report_date],
                    astimezone_JST(call.arg.current_time)))
    /\ UNCHANGED program

Call_should_post_morning_content ==
    /\ call.fn = "should_post_morning_content"
    /\ ~call.done
    /\ call' = Returned(should_post_morning_content(
                    call.arg.prev_daily_oshi_count,
                    astimezone_JST(call.arg.current_time)))
    /\ UNCHANGED program

Call_calculate_level ==
    /\ call.fn = "calculate_level"
    /\ ~call.done
    /\ call' = Returned(calculate_level(call.arg.xp_table,
                                        call.arg.cumulative_xp))
    /\ UNCHANGED program

Call_get_xp_to_next_level ==
    /\ call.fn = "get_xp_to_next_level"
    /\ ~call.done
    /\ call' = Returned(get_xp_to_next_level(call.arg.xp_table,
                            call.arg.current_level, call.arg.current_xp))
    /\ UNCHANGED program

Call_classify_tweet ==
    /\ call.fn = "classify_tweet"
    /\ ~call.done
    /\ call' = Returned(classify_tweet(call.arg))
    /\ UNCHANGED program

Call_truncate_analysis ==
    /\ call.fn = "truncate_analysis"
    /\ ~call.done
    /\ call' = Returned(truncate_analysis(call.arg.text, call.arg.max_len))
    /\ UNCHANGED program

\* truncate_text(text) with the default max_length
Call_truncate_text ==
    /\ call.fn = "truncate_text"
    /\ ~call.done
    /\ call' = Returned(truncate_text(call.arg.text, MAX_TEXT_LENGTH))
    /\ UNCHANGED program

\* calculate_xp for count1 + count2, and for count1 and count2 added up
Call_calculate_xp ==
    /\ call.fn = "calculate_xp"
    /\ ~call.done
    /\ call' = Returned(
          [combined |-> calculate_xp_float(call.arg.activity_type,
                            call.arg.count1 + call.arg.count2),
           separate |-> FloatAdd(
                calculate_xp_float(call.arg.activity_type, call.arg.count1),
                calculate_xp_float(call.arg.activity_type, call.arg.count2))])
    /\ UNCHANGED program

\* save_state(state) on an empty table followed by load_state()
Call_save_state ==
    /\ call.fn = "save_state"
    /\ ~call.done
    /\ call' = Returned(LoadState(PutItem(stored, SaveItem(call.arg.state))))
    /\ UNCHANGED program

Call_extract_analysis_text ==
    /\ call.fn = "extract_analysis_text"
    /\ ~call.done
    /\ call' = Returned(extract_analysis_text(call.arg.raw))
    /\ UNCHANGED program

\* the events applied in turn to the default state, with the score as
\* floats and in tenths
Call_score ==
    /\ call.fn = "score"
    /\ ~call.done
    /\ call' = Returned(
          [floats |-> RunEventsFloat(BotStateFloat, call.arg.events),
           tenths |-> RunEvents(BotState, call.arg.events)])
    /\ UNCHANGED program

FunNext ==
    \/ Call_should_post_daily_report
    \/ Call_should_post_morning_content
    \/ Call_calculate_level
    \/ Call_get_xp_to_next_level
    \/ Call_classify_tweet
    \/ Call_truncate_analysis
    \/ Call_truncate_text
    \/ Call_calculate_xp
    \/ Call_save_state
    \/ Call_score
    \/ Call_extract_analysis_text

FunSpec == FunInit /\ [][FunNext]_vars

\* the function has been applied and has returned
Applied(fn) == call.fn = fn /\ call.done

\* ------------------------------------------------------------ properties
Running ==
    {"engage", "poll_oshi", "poll_group", "process", "level", "report",
     "morning", "save"}

HasRecord(t) == \E item \in processed : item.tweet_id = t

C2_ExactlyOneDelta ==
    \A t \in TweetIds :
        (acqCount[t] = 1 /\ alreadyCount[t] >= 1) =>
            /\ grantCount[t] = 1
            /\ genCount[t] <= 1
            /\ pubCount[t] <= 1

\* C3: a post whose guarded action failed with a transient error (no score
\* granted) has no idempotency record, so that a later acquire succeeds.
C3_NoRecordAfterFailure ==
    \A t \in TweetIds :
        (failCount[t] > 0 /\ grantCount[t] = 0) => ~HasRecord(t)

EarlierAcquired(j, same_action) ==
    \E k \in 1..(j - 1) :
        /\ guardLog[k].outcome = "Acquired"
        /\ guardLog[k].tweet_id = guardLog[j].tweet_id
        /\ same_action => guardLog[k].action_type = guardLog[j].action_type

FatalCauses == {"load_state", "load_xp_table", "empty_xp_table", "save_state"}

\* C5: a transient failure while acting on one post never aborts the
\* invocation: an invocation ends early only on a failure of the state
\* store or of the progression table.
C5_PostFailureDoesNotAbort ==
    \A i \in Invocations : pc[i] = "aborted" => cause[i] \in FatalCauses

StartupFaults == {"load_state", "load_xp_table", "empty_xp_table"}

\* C6: an invocation whose state record or progression table cannot be
\* loaded, or whose table is empty, ends at once with the error signal: that
\* step publishes nothing, creates no idempotency record and writes no
\* state, and the invocation never takes another step.
C6_FatalStartupHasNoEffect ==
    [][\A i \in Invocations :
        /\ (pc[i] = "idle" /\ cause'[i] \in StartupFaults) =>
                /\ pc'[i] = "aborted"
                /\ effects'[i] = NoEffects
                /\ UNCHANGED <<stored, processed, saves, pubCount, acqCount>>
        /\ pc[i] = "aborted" =>
                /\ pc'[i] = "aborted"
                /\ effects'[i] = effects[i]]_vars

\* an invocation was aborted at startup although a post was there to act on
C6_Witness ==
    \E i \in Invocations :
        /\ pc[i] = "aborted"
        /\ cause[i] = "empty_xp_table"
        /\ numTweets > 0

\* C7: the write of the state record is an unconditional full overwrite
\* with the writer's own copy, whatever another invocation has written
\* since the writer loaded it; so the persisted cumulative_xp can end up
\* below the sum of what the invocations that saved were granted.
C7_SaveOverwrites ==
    [][(saves' = saves + 1) =>
        \E i \in Invocations :
            /\ pc[i] = "save"
            /\ pc'[i] = "done"
            /\ \A f \in DOMAIN stored' : stored'[f] = st[i][f]]_vars

\* both invocations loaded the initial state, each was granted score for a
\* different post, both saved: the persisted score misses one of the grants
C7_Witness ==
    /\ pc["a"] = "done"
    /\ pc["b"] = "done"
    /\ saves = 2
    /\ \E t, u \in TweetIds : t # u /\ grantCount[t] = 1 /\ grantCount[u] = 1
    /\ stored.cumulative_xp < savedXp

LargestLevel(xp) ==
    CHOOSE l \in DOMAIN XPTable :
        /\ XPTable[l] <= xp
        /\ \A k \in DOMAIN XPTable : XPTable[k] <= xp => k <= l

\* C8: in every persisted state current_level is the largest level whose
\* threshold is <= cumulative_xp; after the level check the invocation's
\* state and its reported new_level are that level too, also when the level
\* rises by more than one.
C8_LevelMatchesScore ==
    /\ stored.current_level = LargestLevel(stored.cumulative_xp)
    /\ \A i \in Invocations :
          pc[i] \in {"report", "morning", "save"} =>
            /\ st[i].current_level = LargestLevel(st[i].cumulative_xp)
            /\ res[i].new_level = st[i].current_level
            /\ res[i].level_up <=> st[i].current_level > loaded[i].current_level

\* a single save has persisted a level two above the initial one
C8_Witness ==
    /\ saves = 1
    /\ stored.current_level >= BotState.current_level + 2

\* C9: no step of an invocation lowers its cumulative_xp or any lifetime
\* count; an engagement check that observes a total below the stored one
\* adds nothing for that metric.
C9_ScoreNeverDecreases ==
    [][\A i \in Invocations :
        (pc[i] \in Running /\ pc'[i] \in Running) =>
            /\ st'[i].cumulative_xp >= st[i].cumulative_xp
            /\ st'[i].like_count >= st[i].like_count
            /\ st'[i].repost_count >= st[i].repost_count
            /\ res'[i].xp_gained >= res[i].xp_gained]_vars

\* an engagement check has observed fewer likes than the stored total
C9_Witness ==
    \E i \in Invocations :
        /\ pc[i] = "poll_oshi"
        /\ st[i].total_received_likes < loaded[i].total_received_likes
        /\ st[i].cumulative_xp = loaded[i].cumulative_xp

DailyCounters ==
    {"daily_oshi_count", "daily_group_count", "daily_repost_count",
     "daily_like_count", "daily_xp"}

\* C10: the five since-last-report counters are set to zero together, with
\* last_daily_report_date set to today, by the step in which the daily
\* report was posted; that step changes nothing when no report was posted,
\* no other step lowers a counter or touches the date, and the state then
\* written carries exactly these values.
C10_DailyReset ==
    [][\A i \in Invocations :
        /\ (pc[i] = "report" /\ pc'[i] = "save") =>
              IF effects'[i].reports = effects[i].reports + 1
              THEN /\ \A f \in DailyCounters : st'[i][f] = 0
                   /\ st'[i].last_daily_report_date = now'.day
              ELSE st'[i] = st[i]
        /\ (pc[i] \in Running \ {"report"} /\ pc'[i] \in Running) =>
              /\ \A f \in DailyCounters : st'[i][f] >= st[i][f]
              /\ st'[i].last_daily_report_date = st[i].last_daily_report_date
              /\ effects'[i].reports = effects[i].reports
        /\ (pc[i] = "save" /\ pc'[i] = "done") =>
              /\ \A f \in DailyCounters : stored'[f] = st[i][f]
              /\ stored'.last_daily_report_date = st[i].last_daily_report_date]_vars

\* a report was posted by an invocation that had gained XP, and the state
\* written has the counters at zero and today's date
C10_Witness ==
    /\ saves >= 1
    /\ savedXp > 0
    /\ stored.cumulative_xp > 0
    /\ stored.last_daily_report_date = now.day
    /\ \A f \in DailyCounters : stored[f] = 0

\* C11: the step in which a daily report is posted sets
\* prev_daily_oshi_count to the value daily_oshi_count had just before the
\* reset.
C11_PrevCountCarried ==
    [][\A i \in Invocations :
        (pc[i] = "report" /\ effects'[i].reports = effects[i].reports + 1) =>
            st'[i].prev_daily_oshi_count = st[i].daily_oshi_count]_vars

JstHour == (call.arg.current_time.hour + 9) % 24

JstDate == call.arg.current_time.day + (call.arg.current_time.hour + 9) \div 24

\* C13: should_post_daily_report is true exactly when the JST hour is >= 23
\* and last_daily_report_date is not the JST date.
C13_ReportGateAt23 ==
    Applied("should_post_daily_report") =>
        (call.out <=> (JstHour >= 23
                       /\ call.arg.last_daily_report_date # JstDate))

\* C14: should_post_morning_content is true exactly when the JST hour is 10
\* and prev_daily_oshi_count <= LOW_ACTIVITY_THRESHOLD.
C14_MorningGateAt10 ==
    Applied("should_post_morning_content") =>
        (call.out <=> (JstHour = 10
                       /\ call.arg.prev_daily_oshi_count <= LOW_ACTIVITY_THRESHOLD))

\* C15: for a strictly increasing table with level 1 at 0 and a score >= 0,
\* calculate_level returns the greatest level whose threshold is <= the
\* score, and no lower score gets a higher level.
C15_GreatestLevel ==
    Applied("calculate_level") =>
        LET t == call.arg.xp_table
            xp == call.arg.cumulative_xp
        IN /\ call.out \in DOMAIN t
           /\ t[call.out] <= xp
           /\ \A l \in DOMAIN t : t[l] <= xp => l <= call.out
           /\ \A a \in 0..xp : calculate_level(t, a) <= call.out

\* a score exactly on the threshold of a level above 1 gets that level
C15_Witness ==
    /\ Applied("calculate_level")
    /\ call.out >= 2
    /\ call.arg.xp_table[call.out] = call.arg.cumulative_xp

\* C16: get_xp_to_next_level returns None (-1) exactly at the maximum level
\* of the table, and otherwise max(0, table[level+1] - score) truncated
\* toward zero to whole XP.
C16_XpToNext ==
    Applied("get_xp_to_next_level") =>
        LET t == call.arg.xp_table
            level == call.arg.current_level
            top == CHOOSE l \in DOMAIN t : \A k \in DOMAIN t : k <= l
        IN IF level = top
           THEN call.out = -1
           ELSE LET remaining == t[level + 1] - call.arg.current_xp
                IN /\ call.out # -1
                   /\ call.out % 10 = 0
                   /\ IF remaining <= 0 THEN call.out = 0
                      ELSE call.out <= remaining /\ remaining < call.out + 10

\* table {1: 0, 2: 14, 3: 31}, level 2, score 14.0: 17 XP to go
C16_Witness ==
    /\ Applied("get_xp_to_next_level")
    /\ call.arg.xp_table = <<0, 140, 310>>
    /\ call.arg.current_level = 2
    /\ call.arg.current_xp = 140
    /\ call.out = 170

C19_TruncationBound ==
    Applied("truncate_analysis") => Len(call.out) <= call.arg.max_len

\* a text over the budget came back as its first line plus the summary
C19_Witness ==
    /\ Applied("truncate_analysis")
    /\ Len(call.arg.text) > call.arg.max_len
    /\ find(call.arg.text, <<"LF">>) > 0
    /\ call.out = Prefix(call.arg.text, find(call.arg.text, <<"LF">>))
                    \o <<"LF">> \o summary_markers[1]
    /\ call.out # call.arg.text

\* C20: the text truncate_text returns is never longer than 140 characters.
C20_ResponseWithinLimit ==
    Applied("truncate_text") => Len(call.out) <= MAX_TEXT_LENGTH

\* C17 (as claimed): calculate_xp(kind, m + n) equals
\* calculate_xp(kind, m) + calculate_xp(kind, n).
C17_Additive ==
    Applied("calculate_xp") => call.out.combined = call.out.separate

\* C17 (amended): the two agree up to float rounding, with a relative
\* difference below 2^-49, and exactly for the kinds whose rate is 5.0, 2.0
\* or 0.5.
C17_AdditiveUpToRounding ==
    Applied("calculate_xp") =>
        LET diff == BigAbsDiff(call.out.combined, call.out.separate)
        IN /\ diff # BigZero =>
                  BitLength(diff) + 50 <= BitLength(call.out.combined)
           /\ call.arg.activity_type # "like" => diff = BigZero

\* 0.1 * 6 is 0.6000000000000001 and 0.1 * 1 + 0.1 * 5 is 0.6
C17_Witness ==
    /\ Applied("calculate_xp")
    /\ call.arg.activity_type = "like"
    /\ call.arg.count1 = 1
    /\ call.arg.count2 = 5
    /\ call.out.combined # call.out.separate

\* C23: saving a state and loading it again returns a state equal to the
\* original in every field (the last-updated timestamp, which save_state
\* overwrites, is not part of the modelled state).
C23_RoundTrip == Applied("save_state") => call.out = call.arg.state

\* no invocation is under way
Quiet == \A i \in Invocations : pc[i] \in {"idle", "done", "aborted"}

\* C24: the saved watermark never passes a post or repost of a watched
\* account that has not been acted on: between invocations, every such
\* tweet with an id up to the watermark has its processed record (later
\* polls ask for ids above the watermark only, so a tweet below it that was
\* missed is never returned again).
C24_WatermarkBehindUnprocessed ==
    Quiet =>
        \A t \in 1..numTweets :
            (~TweetIsReply(t) /\ t <= stored.latest_tweet_id) => HasRecord(t)

\* C25: an invocation that does not abort writes the state item exactly
\* once, as its last step: the item changes and the write count grows only
\* in the step that takes an invocation from "save" to "done", that step
\* writes the invocation's state once, it comes after the posts, the
\* level-up and the gated content, and a finished invocation writes nothing
\* more.
C25_SingleFinalWrite ==
    [][/\ (stored' # stored \/ saves' # saves) =>
            \E i \in Invocations : pc[i] = "save" /\ pc'[i] = "done"
       /\ \A i \in Invocations :
            /\ (pc[i] # "done" /\ pc'[i] = "done") =>
                    /\ pc[i] = "save"
                    /\ todo[i] = << >>
                    /\ saves' = saves + 1
                    /\ stored' = SaveItem(st[i])
            /\ (pc[i] # "save" /\ pc'[i] = "save") =>
                    pc[i] \in {"report", "morning"}
            /\ pc[i] = "done" => pc'[i] = "done"]_vars

C25_Witness ==
    /\ \A i \in Invocations : pc[i] = "done"
    /\ saves = 2
    /\ stored.cumulative_xp > 0

\* no invocation has failed to save its state
NoSaveFailed == \A i \in Invocations : cause[i] # "save_state"

\* C26: over invocations that run one after the other and whose saves
\* succeed, at most one daily report is posted per JST date, and an
\* invocation that comes to the report step on a date that already has its
\* report finds the gate false at every time of that date.
C26_OneReportPerDate ==
    NoSaveFailed =>
        /\ \A date \in 1..MaxDay : reportsOn[date] <= 1
        /\ \A i \in Invocations, t \in Times :
              (pc[i] = "report" /\ reportsOn[t.day] >= 1) =>
                    ~should_post_daily_report(st[i], t)

C26_Witness ==
    /\ NoSaveFailed
    /\ reportsOn[1] = 1
    /\ pc["a"] = "done"
    /\ pc["b"] = "save"
    /\ res["b"].execution_mode = "daily_report"
    /\ now.hour >= DAILY_REPORT_HOUR

\* the invocation is past the watermark update
AfterWatermark(i) == pc[i] \in {"report", "morning", "save"}

GreatestId(tweets) == CHOOSE t \in tweets : \A u \in tweets : u <= t

\* the returned tweets that are original posts or reposts
PostsAndReposts(tweets) ==
    {t \in tweets : ~TweetIsReply(t) \/ TweetIsRetweet(t)}

\* C27 as stated: after the watermark update, latest_tweet_id is the
\* numerically greatest id among all tweets the polls of the invocation
\* returned, and the loaded value when they returned none.
C27_GreatestReturned ==
    \A i \in Invocations :
        AfterWatermark(i) =>
            st[i].latest_tweet_id =
                IF returned[i] # {} THEN GreatestId(returned[i])
                ELSE loaded[i].latest_tweet_id

\* C27 as amended: the same over the returned tweets that are original
\* posts or reposts; replies that are not reposts do not count.
C27_GreatestProcessed ==
    \A i \in Invocations :
        AfterWatermark(i) =>
            st[i].latest_tweet_id =
                IF PostsAndReposts(returned[i]) # {}
                THEN GreatestId(PostsAndReposts(returned[i]))
                ELSE loaded[i].latest_tweet_id

C27_Witness ==
    \E i \in Invocations :
        /\ pc[i] = "save"
        /\ Cardinality(PostsAndReposts(returned[i])) = 2
        /\ Len(TweetIdText(st[i].latest_tweet_id)) = 2

\* C29: in the step that runs the gated content, post_youtube_search is
\* called if and only if should_post_morning_content is true of the
\* state's prev_daily_oshi_count and the current time, and post_translation
\* if and only if should_post_translation is true as well.
C29_FillerAttempts ==
    [][\A i \in Invocations :
        (pc[i] \in {"report", "morning"} /\ pc'[i] = "save") =>
            LET gate == should_post_morning_content(
                            st'[i].prev_daily_oshi_count, now')
            IN /\ effects'[i].youtube_attempts = (IF gate THEN 1 ELSE 0)
               /\ effects'[i].translation_attempts =
                    (IF gate /\ should_post_translation(now') THEN 1 ELSE 0)]_vars

\* C30: an invocation that has posted the daily report has posted the
\* analysis thread exactly once and has post_analysis_posted in its result;
\* an invocation that has not, has posted no analysis thread.
C30_AnalysisAfterReport ==
    \A i \in Invocations :
        pc[i] = "save" =>
            /\ effects[i].analysis_threads =
                    (IF res[i].daily_report_posted THEN 1 ELSE 0)
            /\ res[i].daily_report_posted =>
                    "post_analysis_posted" \in DOMAIN res[i]

\* x and y are equal or differ by a relative error below 2^-49
WithinRounding(x, y) ==
    LET diff == BigAbsDiff(x, y)
    IN diff # BigZero => BitLength(diff) + 50 <= BitLength(y)

\* C28 as stated: in every state reached from the default state the
\* cumulative XP equals the sum over the kinds of rate times lifetime count,
\* and the daily XP equals the same sum over the daily counts, as the
\* program computes them.
C28_ScoreEqualsCounts ==
    Applied("score") =>
        /\ call.out.floats.cumulative_xp = get_xp_breakdown(call.out.floats)
        /\ call.out.floats.daily_xp = get_daily_xp_breakdown(call.out.floats)

\* C28 as amended: the two are equal in exact arithmetic (in tenths of an
\* XP); as floats they are equal up to rounding, and exactly equal while no
\* like is counted in their scope.
C28_ScoreMatchesCounts ==
    Applied("score") =>
        /\ call.out.tenths.cumulative_xp = XpOfCounts(call.out.tenths)
        /\ call.out.tenths.daily_xp = DailyXpOfCounts(call.out.tenths)
        /\ WithinRounding(call.out.floats.cumulative_xp,
                          get_xp_breakdown(call.out.floats))
        /\ WithinRounding(call.out.floats.daily_xp,
                          get_daily_xp_breakdown(call.out.floats))
        /\ call.out.floats.like_count = 0 =>
              call.out.floats.cumulative_xp = get_xp_breakdown(call.out.floats)
        /\ call.out.floats.daily_like_count = 0 =>
              call.out.floats.daily_xp = get_daily_xp_breakdown(call.out.floats)

\* 0.1 + (0.1 + 1.0) is 1.2000000000000002 and 1.0 + 0.2 is 1.2
C28_Witness ==
    /\ Applied("score")
    /\ call.out.floats.like_count = 2
    /\ call.out.floats.repost_count = 2
    /\ call.out.tenths.cumulative_xp = 12
    /\ call.out.floats.cumulative_xp # get_xp_breakdown(call.out.floats)

\* sentence-ending punctuation and line breaks
SentenceEnds == {".", "maru", "LF"}

\* C21: of a text with a reasoning span (closed or not) the sanitizer
\* returns what is left when the spans are removed; when nothing is left
\* and the span has contents, it returns the last non-empty sentence or
\* line of the contents, split on sentence-ending punctuation and line
\* breaks ("<think>x</think>xx" gives "xx", "<think>x.xx</think>" gives
\* "xx").
C21_ReasoningRemoved ==
    (Applied("extract_analysis_text")
        /\ find(call.arg.raw, ThinkOpen) # -1) =>
        LET remaining == strip(remove_open_think(
                                    remove_closed_think(call.arg.raw)))
            sentences == sentences_of(think_content(call.arg.raw),
                                      SentenceEnds)
        IN call.out =
            IF remaining # << >> THEN strip(collapse_newlines(remaining))
            ELSE IF sentences # << >> THEN sentences[Len(sentences)]
            ELSE << >>

\* C22: a text with no reasoning tag (and no run of three or more line
\* breaks, which the sanitizer collapses) is returned unchanged apart from
\* the trimming of surrounding whitespace.
C22_PlainTextUnchanged ==
    (Applied("extract_analysis_text")
        /\ find(call.arg.raw, ThinkOpen) = -1
        /\ find(call.arg.raw, ThinkClose) = -1
        /\ collapse_newlines(call.arg.raw) = call.arg.raw) =>
        call.out = strip(call.arg.raw)

====
